---- MODULE Spec2Model ----
(***************************************************************************)
(* LLM-EvalSys: the workflow (workflow.py), the generation phase          *)
(* (response_generator.py), the judging phase (json_validator.py), the     *)
(* judge call with its retry/fallback loop and parser (evaluator.py) and   *)
(* the aggregator (metrics.py), as one state machine.                      *)
(*                                                                         *)
(* Texts are sequences of tokens; a token is a literal piece of the text.  *)
(* "x in text" is token membership, split(sep)[0] is the prefix before the *)
(* first sep token, strip() drops the blank tokens at both ends.  A judge  *)
(* response is a sequence of lines, each line a sequence of tokens.        *)
(***************************************************************************)
EXTENDS Integers, Sequences, FiniteSets, TLC

\* ------------------------------------------------------------------ bounds
MaxItems == 2
MaxWorkers == 2
MaxRetries == 3
MaxLines == 4
MaxRecords == 3

\* ------------------------------------------------------- program constants
DEFAULT_MAX_RETRIES == 3
BEDROCK_DEFAULT_MODEL == "anthropic.claude-3-sonnet-20240229-v1:0"
BEDROCK_FALLBACK_MODEL == "anthropic.claude-instant-v1"

SP == " "
TooLongPhrase == "The model took too long to respond"
TimeoutMessage == <<TooLongPhrase, " (timeout after 30 seconds). re-run the script.">>
SkippedJustification == <<"Skipped due to timeout error in the response">>
FailedResponseJustification == <<"Failed to get response from model">>

\* ------------------------------------------------------------ text helpers
Contains(s, tok) == \E k \in 1..Len(s) : s[k] = tok

FirstIndex(s, tok) == CHOOSE k \in 1..Len(s) : s[k] = tok /\ \A m \in 1..(k-1) : s[m] # tok

\* str.split(sep)[0]
BeforeFirst(s, tok) == IF Contains(s, tok) THEN SubSeq(s, 1, FirstIndex(s, tok) - 1) ELSE s

RECURSIVE LStrip(_)
LStrip(s) == IF s # <<>> /\ Head(s) = SP THEN LStrip(Tail(s)) ELSE s

RECURSIVE RStrip(_)
RStrip(s) == IF s # <<>> /\ s[Len(s)] = SP THEN RStrip(SubSeq(s, 1, Len(s) - 1)) ELSE s

\* str.strip()
Strip(s) == RStrip(LStrip(s))

\* str.split(sep): the list of fields between the sep tokens
RECURSIVE Split(_, _)
Split(s, sep) ==
    IF Contains(s, sep)
    THEN <<SubSeq(s, 1, FirstIndex(s, sep) - 1)>> \o Split(SubSeq(s, FirstIndex(s, sep) + 1, Len(s)), sep)
    ELSE <<s>>

\* ------------------------------------------------- json.loads on a payload
\* A payload <<"{", k1, v1, ..., "}">> is a JSON object, <<"\"", ..., "\"">> a
\* JSON string, anything else raises JSONDecodeError.
JsonLoads(raw) ==
    LET t == Strip(raw) IN
    IF Len(t) >= 2 /\ t[1] = "{" /\ t[Len(t)] = "}" /\ Len(t) % 2 = 0
    THEN [kind |-> "dict", body |-> SubSeq(t, 2, Len(t) - 1)]
    ELSE IF Len(t) >= 2 /\ t[1] = "\"" /\ t[Len(t)] = "\""
    THEN [kind |-> "str", body |-> SubSeq(t, 2, Len(t) - 1)]
    ELSE [kind |-> "JSONDecodeError", body |-> <<>>]

DictHasKey(body, key) == \E k \in 1..Len(body) : k % 2 = 1 /\ body[k] = key

DictGet(body, key) == body[(CHOOSE k \in 1..Len(body) : k % 2 = 1 /\ body[k] = key) + 1]

\* ------------------------------------------- invoke_retrieval_lambda (15-75)
\* outcome: what lambda_client.invoke and Payload.read().decode() did.
\* A call result is either a returned pair or a raised exception.
Returned(raw_answer, extracted_answer) ==
    [raised |-> FALSE, value |-> <<raw_answer, extracted_answer>>, exc |-> ""]

Raised(exc) == [raised |-> TRUE, value |-> <<>>, exc |-> exc]

\* 52-57
ExtractAnswer(raw_answer) ==
    IF raw_answer = <<>> THEN <<>>
    ELSE IF Contains(raw_answer, "<sessionId>") THEN Strip(BeforeFirst(raw_answer, "<sessionId>"))
    ELSE Strip(raw_answer)

\* 47-70
ClassifyPayload(raw_answer) ==
    IF Contains(raw_answer, "errorType") /\ Contains(raw_answer, "Sandbox.Timedout")
    THEN Returned(TimeoutMessage, TimeoutMessage)
    ELSE IF raw_answer # <<>> /\ Contains(raw_answer, "errorType") /\ Contains(raw_answer, "errorMessage")
    THEN LET error_data == JsonLoads(raw_answer) IN
         CASE error_data.kind = "JSONDecodeError" -> Returned(raw_answer, ExtractAnswer(raw_answer))
           [] error_data.kind = "dict" ->
                IF DictHasKey(error_data.body, "errorMessage")
                THEN LET error_message == <<"Error: ", DictGet(error_data.body, "errorMessage")>>
                     IN  Returned(error_message, error_message)
                ELSE Returned(raw_answer, ExtractAnswer(raw_answer))
           [] error_data.kind = "str" ->
                IF Contains(error_data.body, "errorMessage")
                THEN Raised("string indices must be integers")      \* TypeError at 63
                ELSE Returned(raw_answer, ExtractAnswer(raw_answer))
    ELSE Returned(raw_answer, ExtractAnswer(raw_answer))

\* 23-70: the body of the try block
InvokeBody(outcome) ==
    IF outcome.kind = "payload" THEN ClassifyPayload(outcome.raw) ELSE Raised(outcome.err)

\* mutant: no handler around the body
InvokeRetrievalLambdaUncaught(outcome) == InvokeBody(outcome)

\* 72-75: the handler; an exception raised inside the handler itself escapes
InvokeRetrievalLambda(outcome) ==
    LET r == InvokeBody(outcome)
        error_message == <<"Error invoking Lambda: ", r.exc>>
    IN  IF outcome.kind = "handler_raised" THEN Raised(outcome.err)
        ELSE IF r.raised THEN Returned(error_message, error_message)
        ELSE r

\* ------------------------------------------------ scoring parser (113-147)
\* int(): the numerals Python's int() accepts, with their values; any other
\* field raises ValueError.
IntLiteral ==
    ("0" :> 0) @@ ("8" :> 8) @@ ("9" :> 9) @@ ("10" :> 10) @@ ("11" :> 11) @@ ("-3" :> -3)

StartsWith(line, prefix) == line # <<>> /\ line[1] = prefix

\* mutant: the last matching line is taken
LastLine(lines, prefix) ==
    IF \E k \in 1..Len(lines) : StartsWith(lines[k], prefix)
    THEN lines[CHOOSE k \in 1..Len(lines) :
                  /\ StartsWith(lines[k], prefix)
                  /\ \A m \in (k+1)..Len(lines) : ~StartsWith(lines[m], prefix)]
    ELSE <<>>

\* next((line for line in lines if line.startswith(prefix)), "")
FirstLine(lines, prefix) ==
    IF \E k \in 1..Len(lines) : StartsWith(lines[k], prefix)
    THEN lines[CHOOSE k \in 1..Len(lines) :
                  /\ StartsWith(lines[k], prefix)
                  /\ \A m \in 1..(k-1) : ~StartsWith(lines[m], prefix)]
    ELSE <<>>

\* mutant: -1 marks a line that could not be read
extract_score_minus_one(lines, prefix) ==
    LET score_line == FirstLine(lines, prefix)
        fields == Split(score_line, ":")
    IN  IF score_line = <<>> THEN 0
        ELSE IF Len(fields) < 2 THEN -1
        ELSE LET f == Strip(fields[2]) IN
             IF Len(f) = 1 /\ f[1] \in DOMAIN IntLiteral THEN IntLiteral[f[1]] ELSE -1

\* 118-119: the body of extract_score's try block; exc names the exception
\* it raises ("" when it returns value)
ExtractScoreBody(lines, prefix) ==
    LET score_line == FirstLine(lines, prefix)
        fields == Split(score_line, ":")
    IN  IF score_line = <<>> THEN [exc |-> "", value |-> 0]
        ELSE IF Len(fields) < 2 THEN [exc |-> "IndexError", value |-> 0]
        ELSE LET f == Strip(fields[2]) IN
             IF Len(f) = 1 /\ f[1] \in DOMAIN IntLiteral
             THEN [exc |-> "", value |-> IntLiteral[f[1]]]
             ELSE [exc |-> "ValueError", value |-> 0]

\* mutant: a line without a colon is not handled
CaughtValueErrorOnly(exc) == exc = "ValueError"

\* 120: except (IndexError, ValueError)
Caught(exc) == exc \in {"IndexError", "ValueError"}

\* 116-121: the value extract_score returns
extract_score(lines, prefix) ==
    LET r == ExtractScoreBody(lines, prefix)
    IN  IF r.exc = "" THEN r.value ELSE 0

\* the exception that leaves extract_score ("" when it returns)
ExtractScoreRaises(lines, prefix) ==
    LET r == ExtractScoreBody(lines, prefix)
    IN  IF r.exc # "" /\ ~Caught(r.exc) THEN r.exc ELSE ""

RECURSIVE JoinLines(_)
JoinLines(ls) ==
    IF ls = <<>> THEN <<>>
    ELSE IF Len(ls) = 1 THEN ls[1]
    ELSE ls[1] \o <<SP>> \o JoinLines(Tail(ls))

\* str.replace("Justification:", "")
RECURSIVE RemoveLabel(_)
RemoveLabel(s) ==
    IF Len(s) < 2 THEN s
    ELSE IF s[1] = "Justification" /\ s[2] = ":" THEN RemoveLabel(SubSeq(s, 3, Len(s)))
    ELSE <<s[1]>> \o RemoveLabel(Tail(s))

JustificationOf(lines) ==
    LET justification_lines == SelectSeq(lines, LAMBDA l : StartsWith(l, "Justification"))
    IN  IF justification_lines = <<>> THEN <<>>
        ELSE Strip(RemoveLabel(JoinLines(justification_lines)))

ZeroScore(justification) ==
    [accuracy |-> 0, completeness |-> 0, relevance |-> 0, justification |-> justification]

ParseResult(lines) ==
    [accuracy |-> extract_score(lines, "Accuracy score"),
     completeness |-> extract_score(lines, "Completeness score"),
     relevance |-> extract_score(lines, "Relevance score"),
     justification |-> JustificationOf(lines)]

\* 123-125: the first exception raised while the three scores are extracted
ParsingError(lines) ==
    IF ExtractScoreRaises(lines, "Accuracy score") # ""
    THEN ExtractScoreRaises(lines, "Accuracy score")
    ELSE IF ExtractScoreRaises(lines, "Completeness score") # ""
    THEN ExtractScoreRaises(lines, "Completeness score")
    ELSE ExtractScoreRaises(lines, "Relevance score")

\* 139-147
ParsingErrorScore(parsing_error, raw_result) ==
    [accuracy |-> 0, completeness |-> 0, relevance |-> 0,
     justification |-> <<"Parsing error: ", parsing_error>>, raw_result |-> raw_result]

\* mutant: the empty result is parsed like any other
ScoreOfResultUnchecked(result) == ParseResult(result)

\* after the retry loop: "if not result" and the parse with its handler
ScoreOfResult(result) ==
    IF result = <<>> THEN ZeroScore(FailedResponseJustification)
    ELSE IF ParsingError(result) # "" THEN ParsingErrorScore(ParsingError(result), result)
    ELSE ParseResult(result)

\* the outer handler of call_bedrock_model
FailedToEvaluate(err) == ZeroScore(<<"Failed to evaluate: ">> \o err)

\* ------------------------------------------ metrics aggregator (metrics.py)
\* A float is kept as the exact fraction <<numerator, denominator>> in lowest
\* terms; np.std is kept as its square, the population variance.
RECURSIVE GCD(_, _)
GCD(a, b) == IF b = 0 THEN a ELSE GCD(b, a % b)

Abs(n) == IF n < 0 THEN -n ELSE n

Rat(num, den) ==
    LET g == GCD(Abs(num), den) IN <<num \div g, den \div g>>

\* "Skipped due to timeout" in justification: the pieces of text that hold it
SkipMarkerTokens == {"Skipped due to timeout", "Skipped due to timeout error in the response"}

HasSkipMarker(justification) ==
    \E k \in 1..Len(justification) : justification[k] \in SkipMarkerTokens

\* mutant: every record is counted
IsEvaluatedAlways(record) == TRUE

\* metrics.py 23 and json_validator.py 129
IsEvaluated(record) == ~HasSkipMarker(record.text_response_evaluation.justification)

\* 21-26: the scores of one axis over the evaluated records
AxisScores(evaluation_results, axis) ==
    LET evaluated == SelectSeq(evaluation_results, IsEvaluated)
    IN  [k \in 1..Len(evaluated) |-> evaluated[k].text_response_evaluation[axis]]

RECURSIVE Sum(_)
Sum(scores) == IF scores = <<>> THEN 0 ELSE Head(scores) + Sum(Tail(scores))

MinOf(scores) == CHOOSE x \in {scores[k] : k \in 1..Len(scores)} : \A k \in 1..Len(scores) : x <= scores[k]

MaxOf(scores) == CHOOSE x \in {scores[k] : k \in 1..Len(scores)} : \A k \in 1..Len(scores) : x >= scores[k]

\* twice np.median
TwiceMedian(scores) ==
    LET sorted == SortSeq(scores, LAMBDA a, b : a < b)
        n == Len(sorted)
    IN  IF n % 2 = 1 THEN 2 * sorted[(n + 1) \div 2] ELSE sorted[n \div 2] + sorted[n \div 2 + 1]

\* 36-69: the five statistics of a series whose values are scores[k] / den
Statistics(scores, den) ==
    LET n == Len(scores)
        squares == [k \in 1..n |-> scores[k] * scores[k]]
    IN  [mean |-> Rat(Sum(scores), n * den),
         median |-> Rat(TwiceMedian(scores), 2 * den),
         min |-> Rat(MinOf(scores), den),
         max |-> Rat(MaxOf(scores), den),
         std |-> Rat(n * Sum(squares) - Sum(scores) * Sum(scores), n * n * den * den)]

\* round(scores[k] / den): no value lies halfway for den 1 or 3
Round(score, den) == (2 * score + den) \div (2 * den)

\* 80-82
Bins(scores, den) ==
    [b \in 0..10 |-> Cardinality({k \in 1..Len(scores) : Round(scores[k], den) = b})]

EmptyMap == [x \in {} |-> 0]

\* 11-15 and 30-34
EmptyMetrics == [count |-> 0, metrics |-> EmptyMap, distribution |-> EmptyMap]

calculate_metrics(evaluation_results) ==
    LET accuracy_scores == AxisScores(evaluation_results, "accuracy")
        completeness_scores == AxisScores(evaluation_results, "completeness")
        relevance_scores == AxisScores(evaluation_results, "relevance")
        \* 61, kept as three times the score
        combined_scores == [k \in 1..Len(accuracy_scores) |->
                               accuracy_scores[k] + completeness_scores[k] + relevance_scores[k]]
    IN  IF evaluation_results = <<>> THEN EmptyMetrics
        ELSE IF accuracy_scores = <<>> THEN EmptyMetrics
        ELSE [count |-> Len(accuracy_scores),
              metrics |-> [accuracy |-> Statistics(accuracy_scores, 1),
                           completeness |-> Statistics(completeness_scores, 1),
                           relevance |-> Statistics(relevance_scores, 1),
                           combined |-> Statistics(combined_scores, 3)],
              distribution |-> [accuracy |-> Bins(accuracy_scores, 1),
                                completeness |-> Bins(completeness_scores, 1),
                                relevance |-> Bins(relevance_scores, 1),
                                combined |-> Bins(combined_scores, 3)]]

\* json_validator.py 101-159
calculate_summary_statistics(results_list) ==
    LET total_entries == Len(results_list)
        evaluated_entries == Len(SelectSeq(results_list, IsEvaluated))
        timeout_entries == total_entries - evaluated_entries
        total_accuracy == Sum(AxisScores(results_list, "accuracy"))
        total_completeness == Sum(AxisScores(results_list, "completeness"))
        total_relevance == Sum(AxisScores(results_list, "relevance"))
        Average(total) == IF evaluated_entries > 0 THEN Rat(total, evaluated_entries) ELSE Rat(0, 1)
    IN  [total_entries |-> total_entries,
         timeout_entries |-> timeout_entries,
         evaluated_entries |-> evaluated_entries,
         avg_accuracy |-> Average(total_accuracy),
         avg_completeness |-> Average(total_completeness),
         avg_relevance |-> Average(total_relevance),
         avg_overall |-> IF evaluated_entries > 0
                         THEN Rat(total_accuracy + total_completeness + total_relevance,
                                  3 * evaluated_entries)
                         ELSE Rat(0, 1)]

\* ---------------------------------------------------------- environment
\* What the generation endpoint can answer to one call.
Payloads ==
    { <<SP, "Paris", SP, "<sessionId>", "abc">>,
      <<"{", "errorType", "Sandbox.Timedout", "errorMessage", "Task timed out", "}">>,
      <<"{", "errorType", "RuntimeError", "errorMessage", "boom", "}">>,
      <<"errorType", SP, "errorMessage">>,
      <<"\"", "errorType", "errorMessage", "\"">>,
      <<"Sorry.", SP, TooLongPhrase, SP>>,
      <<>> }

\* payload: the call returned a payload; invoke_raised: lambda_client.invoke
\* raised; decode_raised: reading or decoding the payload raised;
\* handler_raised: an exception left invoke_retrieval_lambda's own handler.
LambdaOutcomes ==
    [kind : {"payload"}, raw : Payloads, err : {""}]
        \cup [kind : {"invoke_raised"}, raw : {<<>>}, err : {"EndpointConnectionError"}]
        \cup [kind : {"decode_raised"}, raw : {<<>>}, err : {"UnicodeDecodeError"}]
        \cup [kind : {"handler_raised"}, raw : {<<>>}, err : {"MemoryError"}]

\* the outcomes the whole-pipeline runs draw from
LeanLambdaOutcomes ==
    { [kind |-> "payload", raw |-> <<SP, "Paris", SP, "<sessionId>", "abc">>, err |-> ""],
      [kind |-> "payload",
       raw |-> <<"{", "errorType", "Sandbox.Timedout", "errorMessage", "Task timed out", "}">>,
       err |-> ""],
      [kind |-> "invoke_raised", raw |-> <<>>, err |-> "EndpointConnectionError"] }

\* What the judging model can answer to one invocation.
ScenarioResponse ==
    << <<"Accuracy score", ":", SP, "9">>,
       <<"Completeness score", ":", SP, "8">>,
       <<"Relevance score", ":", SP, "10">>,
       <<"Justification", ":", SP, "close match">> >>

JudgeTexts ==
    { ScenarioResponse,
      << <<"Accuracy score", ":", SP, "11">>,
         <<"Completeness score", ":", SP, "-3">>,
         <<"Relevance score", ":", SP, "10">> >>,
      << <<"Accuracy score", ":", SP, "nine">>,
         <<"Relevance score", SP, "8">>,
         <<"Justification", ":", SP, "vague">>,
         <<"Justification", ":", SP, "answer">> >>,
      <<>> }

\* the lines a judge response is made of when the parser is exercised
ParserLines ==
    { <<"Accuracy score", ":", SP, "9">>,
      <<"Accuracy score", ":", "10", SP, ":", "exact">>,
      <<"Accuracy score", ":", SP, "nine">>,
      <<SP, "Accuracy score", ":", SP, "11">>,
      <<"Completeness score", ":", SP, "8">>,
      <<"Completeness score", SP, "8">>,
      <<"Relevance score", ":", SP, "10">>,
      <<"Relevance score", ":", SP, "10/10">>,
      <<"Justification", ":", SP, "close match">>,
      <<"Justification", ":", "second", SP>> }

\* the responses of n such lines
ParserTexts(n) == [1..n -> ParserLines]

InferenceProfileError == <<"ValidationException", ": ", "inference profile">>

JudgeErrors == { InferenceProfileError, <<"ValidationException", ": ", "bad input">>, <<"ThrottlingException">> }

JudgeOutcomes ==
    [kind : {"success"}, text : JudgeTexts, err : {<<>>}]
        \cup [kind : {"error"}, text : {<<>>}, err : JudgeErrors]

LeanJudgeOutcomes ==
    { [kind |-> "success", text |-> ScenarioResponse, err |-> <<>>],
      [kind |-> "error", text |-> <<>>, err |-> InferenceProfileError],
      [kind |-> "error", text |-> <<>>, err |-> <<"ThrottlingException">>] }

\* An input item: a JSON object that may lack the "Question" key; a missing
\* or null value reads as the empty text, and a value may be blank.
NoAnswer == [kind |-> "absent", raw_response |-> <<>>, text_response |-> <<>>]

AnswerDict(raw, text) == [kind |-> "dict", raw_response |-> raw, text_response |-> text]

QuestionOf(k) == <<"Q", ToString(k)>>

\* the items of a converted spreadsheet or a hand-written input file
ItemsAt(k) ==
    [hasQuestion : {FALSE}, Question : {<<>>}, Expected : {<<SP>>, <<"E">>}, Generated : {NoAnswer}]
        \cup [hasQuestion : {TRUE}, Question : {<<>>, QuestionOf(k)},
              Expected : {<<SP>>, <<"E">>}, Generated : {NoAnswer}]

RECURSIVE InputListsOf(_)
InputListsOf(n) ==
    IF n = 0 THEN {<<>>}
    ELSE {Append(l, it) : l \in InputListsOf(n - 1), it \in ItemsAt(n)}

InputLists == UNION {InputListsOf(n) : n \in 0..MaxItems}

\* the input lists the generation phase tells apart: with or without the key
GenInputLists ==
    {l \in InputLists : \A k \in 1..Len(l) :
        l[k].Expected = <<"E">> /\ (l[k].hasQuestion => l[k].Question # <<>>)}

\* the items of an artifact the judging phase reads: any answers
AnswerTexts == { <<"Paris">>, TimeoutMessage, <<SP, "Sorry.", SP, TooLongPhrase>> }

ArtifactItemsAt(k) ==
    { [it EXCEPT !.Generated = g] :
        it \in {x \in ItemsAt(k) : x.hasQuestion},
        g \in {NoAnswer} \cup {AnswerDict(t, t) : t \in AnswerTexts} }

RECURSIVE ArtifactListsOf(_)
ArtifactListsOf(n) ==
    IF n = 0 THEN {<<>>}
    ELSE {Append(l, it) : l \in ArtifactListsOf(n - 1), it \in ArtifactItemsAt(n)}

ArtifactLists == UNION {ArtifactListsOf(n) : n \in 0..MaxItems}

VARIABLES
    pc,             \* where the workflow is
    s3_input,       \* the object stored under input_json_key
    s3_output,      \* the object stored under the output key (<<>> until written)
    max_workers,    \* process_input_json's parameter
    max_retries,    \* call_bedrock_model's parameter
    lambda_env,     \* the outcomes the generation endpoint shows in this run
    judge_env,      \* the outcomes the judging model shows in this run
    input_data,     \* process_input_json: the list read from S3
    i,              \* process_input_json: index of the submission loop
    futures,        \* process_input_json: the submitted futures, in submission order
    queue,          \* the executor's work queue (future ids)
    collected,      \* the futures as_completed has yielded
    writes,         \* per index: how often 'Generated Answer' was assigned
    gen_ok,         \* the return value of process_input_json
    data,           \* process_json_data: the list read from S3
    j,              \* process_json_data: index of the loop over data
    results,        \* process_json_data: the records appended so far
    eval_ok,        \* the return value of process_json_data
    jpc,            \* call_bedrock_model: where the current call is
    retries,        \* call_bedrock_model
    model_id,       \* call_bedrock_model
    result,         \* call_bedrock_model: the response text (<<>> for None or "")
    invoke_error,   \* call_bedrock_model: the exception raised out of the loop
    invocations,    \* the invoke_model attempts of the current (or last) call
    slept,          \* a backoff sleep has run since the last attempt
    judged,         \* the indices of data a judge call was started for
    skip_steps,     \* run_etl_workflow's parameter
    exit_code,      \* main: the argument of sys.exit (-1 while running)
    started,        \* the steps run_etl_workflow has started, in order
    reported,       \* the success value each started step returned
    io,             \* the storage calls made so far and whether each succeeded
    metrics,        \* the value calculate_metrics returned
    summary         \* the value calculate_summary_statistics returned

store == <<s3_input, s3_output>>
params == <<max_workers, max_retries, lambda_env, judge_env>>
genvars == <<input_data, i, futures, queue, collected, writes, gen_ok>>
callvars == <<jpc, retries, model_id, result, invoke_error, invocations, slept>>
evalvars == <<data, j, results, eval_ok, judged>>
wfvars == <<skip_steps, exit_code, started, reported>>
aggvars == <<metrics, summary>>
vars == <<pc, store, params, genvars, evalvars, callvars, wfvars, io, aggvars>>

\* one call of read_json_from_s3 or write_json_to_s3 and what it reported
StorageCall(op, key, ok) == [op |-> op, key |-> key, ok |-> ok]

FutureIds == 1..Len(futures)

Running == {f \in FutureIds : futures[f].state = "running"}

\* ------------------------------------------ process_input_json (78-146)
\* 90-97 and the executor's construction at 101
ReadInput ==
    /\ pc = "gen_read"
    /\ \E read_ok \in BOOLEAN :
         /\ IF read_ok /\ s3_input # <<>> /\ max_workers >= 1
            THEN /\ input_data' = s3_input
                 /\ i' = 1
                 /\ writes' = [k \in 1..Len(s3_input) |-> 0]
                 /\ pc' = "gen_submit"
                 /\ UNCHANGED gen_ok
            ELSE /\ gen_ok' = FALSE
                 /\ pc' = "gen_done"
                 /\ UNCHANGED <<input_data, i, writes>>
         /\ io' = Append(io, StorageCall("read", "input", read_ok))
    /\ UNCHANGED <<store, params, wfvars, aggvars, futures, queue, collected, evalvars, callvars>>

\* 104-107
SkipItem ==
    /\ pc = "gen_submit"
    /\ i <= Len(input_data)
    /\ ~input_data[i].hasQuestion
    /\ i' = i + 1
    /\ UNCHANGED <<pc, store, params, wfvars, io, aggvars, input_data, futures, queue, collected, writes, gen_ok,
                   evalvars, callvars>>

\* 109-111: executor.submit(invoke_retrieval_lambda, question, ...); futures[future] = i
NoOutcome == [kind |-> "none", raw |-> <<>>, err |-> ""]

NewFuture(idx, question) ==
    [i |-> idx, question |-> question, state |-> "pending", outcome |-> NoOutcome,
     raised |-> FALSE, value |-> <<>>, exc |-> "", sleeps |-> 0]

\* mutant: the next submission follows at once
SubmitUnpaced ==
    /\ pc = "gen_submit"
    /\ i <= Len(input_data)
    /\ input_data[i].hasQuestion
    /\ futures' = Append(futures, NewFuture(i, input_data[i].Question))
    /\ queue' = Append(queue, Len(futures) + 1)
    /\ i' = i + 1
    /\ UNCHANGED <<pc, store, params, wfvars, io, aggvars, input_data, collected, writes, gen_ok,
                   evalvars, callvars>>

Submit ==
    /\ pc = "gen_submit"
    /\ i <= Len(input_data)
    /\ input_data[i].hasQuestion
    /\ futures' = Append(futures, NewFuture(i, input_data[i].Question))
    /\ queue' = Append(queue, Len(futures) + 1)
    /\ pc' = "gen_sleep"
    /\ UNCHANGED <<store, params, wfvars, io, aggvars, input_data, i, collected, writes, gen_ok, evalvars, callvars>>

\* 113
PacingSleep ==
    /\ pc = "gen_sleep"
    /\ futures' = [futures EXCEPT ![Len(futures)].sleeps = @ + 1]
    /\ i' = i + 1
    /\ pc' = "gen_submit"
    /\ UNCHANGED <<store, params, wfvars, io, aggvars, input_data, queue, collected, writes, gen_ok,
                   evalvars, callvars>>

EndSubmit ==
    /\ pc = "gen_submit"
    /\ i > Len(input_data)
    /\ pc' = "gen_collect"
    /\ UNCHANGED <<store, params, wfvars, io, aggvars, genvars, evalvars, callvars>>

\* mutant: a thread per queued task
CanStartUnbounded == queue # <<>>

\* ThreadPoolExecutor(max_workers) at 101: a worker thread takes the oldest
\* queued task when fewer than max_workers tasks are running.
CanStart == queue # <<>> /\ Cardinality(Running) < max_workers

WorkerStart ==
    /\ CanStart
    /\ futures' = [futures EXCEPT ![Head(queue)].state = "running"]
    /\ queue' = Tail(queue)
    /\ UNCHANGED <<pc, store, params, wfvars, io, aggvars, input_data, i, collected, writes, gen_ok, evalvars, callvars>>

\* what the future holds once its task has ended
FutureDone(fut, outcome) ==
    LET r == InvokeRetrievalLambda(outcome)
    IN  [fut EXCEPT !.state = "finished", !.outcome = outcome,
                    !.raised = r.raised, !.value = r.value, !.exc = r.exc]

\* the task's external call ends and invoke_retrieval_lambda returns or raises
TaskDone(f, outcome) ==
    /\ futures[f].state = "running"
    /\ futures' = [futures EXCEPT ![f] = FutureDone(futures[f], outcome)]
    /\ UNCHANGED <<pc, store, params, wfvars, io, aggvars, input_data, i, queue, collected, writes, gen_ok,
                   evalvars, callvars>>

\* mutant: the slot is the position in submission order
SlotOfSubmission(f) == f

\* 117: i = futures[future]
SlotOf(f) == futures[f].i

\* 119-133: what is assigned to input_data[i]['Generated Answer']
GeneratedAnswerOf(fut) ==
    IF fut.raised
    THEN AnswerDict(<<"Error: ", fut.exc>>, <<>>)
    ELSE AnswerDict(fut.value[1], fut.value[2])

\* 116-133: as_completed yields a finished future
Collect(f) ==
    /\ pc = "gen_collect"
    /\ futures[f].state = "finished"
    /\ f \notin collected
    /\ collected' = collected \cup {f}
    /\ input_data' = [input_data EXCEPT ![SlotOf(f)].Generated = GeneratedAnswerOf(futures[f])]
    /\ writes' = [writes EXCEPT ![SlotOf(f)] = @ + 1]
    /\ UNCHANGED <<pc, store, params, wfvars, io, aggvars, i, futures, queue, gen_ok, evalvars, callvars>>

\* mutant: the with block is left while futures are still outstanding
ExitPoolEarly ==
    /\ pc = "gen_collect"
    /\ pc' = "gen_write"
    /\ UNCHANGED <<store, params, wfvars, io, aggvars, genvars, evalvars, callvars>>

\* the loop at 116 ends and the with block is left
ExitPool ==
    /\ pc = "gen_collect"
    /\ collected = FutureIds
    /\ pc' = "gen_write"
    /\ UNCHANGED <<store, params, wfvars, io, aggvars, genvars, evalvars, callvars>>

\* 135-141; write_json_to_s3 (storage.py:31-60) puts the object and then saves
\* a local copy, so a write that reports failure may have stored the object
WriteInput ==
    /\ pc = "gen_write"
    /\ \E write_success \in BOOLEAN, put_object \in BOOLEAN :
         /\ write_success => put_object
         /\ gen_ok' = write_success
         /\ s3_input' = IF put_object THEN input_data ELSE s3_input
         /\ io' = Append(io, StorageCall("write", "input", write_success))
    /\ pc' = "gen_done"
    /\ UNCHANGED <<s3_output, params, wfvars, aggvars, input_data, i, futures, queue, collected, writes,
                   evalvars, callvars>>

GenNext ==
    \/ ReadInput
    \/ SkipItem
    \/ Submit
    \/ PacingSleep
    \/ EndSubmit
    \/ WorkerStart
    \/ \E f \in FutureIds : \E outcome \in lambda_env : TaskDone(f, outcome)
    \/ \E f \in FutureIds : Collect(f)
    \/ ExitPool
    \/ WriteInput

\* ------------------------------------------- process_json_data (12-99)
\* 18-21
ReadData ==
    /\ pc = "eval_read"
    /\ \E read_ok \in BOOLEAN :
         /\ IF read_ok /\ s3_input # <<>>
            THEN /\ data' = s3_input
                 /\ j' = 1
                 /\ pc' = "eval_loop"
                 /\ UNCHANGED eval_ok
            ELSE /\ eval_ok' = FALSE
                 /\ pc' = "eval_done"
                 /\ UNCHANGED <<data, j>>
         /\ io' = Append(io, StorageCall("read", "input", read_ok))
    /\ UNCHANGED <<store, params, wfvars, aggvars, genvars, results, judged, callvars>>

\* 29-30: str(entry.get(key, "") or "").strip()
question_of(entry) == Strip(entry.Question)

expected_answer_of(entry) == Strip(entry.Expected)

\* 37-41
text_response_of(entry) == Strip(entry.Generated.text_response)

\* mutant: only the question is tested
MissingFieldQuestionOnly(entry) == question_of(entry) = <<>>

\* mutant: the fields are tested as stored
MissingFieldUntrimmed(entry) == entry.Question = <<>> \/ entry.Expected = <<>>

\* 32: the entry is skipped
MissingField(entry) == question_of(entry) = <<>> \/ expected_answer_of(entry) = <<>>

\* mutant: the text is compared with the bare phrase
IsTimeoutPhraseOnly(text_response) == text_response = <<TooLongPhrase>>

\* 43
IsTimeout(text_response) == Contains(text_response, TooLongPhrase)

\* 45-55 and 69-79
ResultEntry(entry, evaluation) ==
    [question |-> question_of(entry),
     expected_answer |-> expected_answer_of(entry),
     generated_answer |-> text_response_of(entry),
     text_response_evaluation |-> evaluation]

\* 32-34
SkipEntry ==
    /\ pc = "eval_loop"
    /\ j <= Len(data)
    /\ MissingField(data[j])
    /\ j' = j + 1
    /\ UNCHANGED <<pc, store, params, wfvars, io, aggvars, genvars, data, results, eval_ok, judged, callvars>>

\* 43-55 and 81
TimeoutEntry ==
    /\ pc = "eval_loop"
    /\ j <= Len(data)
    /\ ~MissingField(data[j])
    /\ IsTimeout(text_response_of(data[j]))
    /\ results' = Append(results, ResultEntry(data[j], ZeroScore(SkippedJustification)))
    /\ j' = j + 1
    /\ UNCHANGED <<pc, store, params, wfvars, io, aggvars, genvars, data, eval_ok, judged, callvars>>

\* 57-63 and evaluator.py 34-64: the call starts; building the client may raise
StartCall ==
    /\ pc = "eval_loop"
    /\ j <= Len(data)
    /\ ~MissingField(data[j])
    /\ ~IsTimeout(text_response_of(data[j]))
    /\ judged' = judged \cup {j}
    /\ retries' = 0
    /\ model_id' = BEDROCK_DEFAULT_MODEL
    /\ result' = <<>>
    /\ invocations' = <<>>
    /\ slept' = FALSE
    /\ \E client_ok \in BOOLEAN :
         IF client_ok
         THEN jpc' = "loop" /\ invoke_error' = <<>>
         ELSE jpc' = "raised" /\ invoke_error' = <<"NoRegionError">>
    /\ pc' = "eval_call"
    /\ UNCHANGED <<store, params, wfvars, io, aggvars, genvars, data, j, results, eval_ok>>

\* ------------------------------------------ call_bedrock_model (30-156)
\* 94
IsInferenceProfileError(error_message) ==
    Contains(error_message, "ValidationException") /\ Contains(error_message, "inference profile")

\* mutant: the model is not switched
FallbackModelUnchanged == BEDROCK_DEFAULT_MODEL

\* 96
FallbackModel == BEDROCK_FALLBACK_MODEL

\* mutant: one pass too many
MayAttemptInclusive == retries <= max_retries

\* 66
MayAttempt == retries < max_retries

\* mutant: the sleep is also taken after the last attempt
RetriesRemainInclusive(n) == n <= max_retries

\* 97: the test that guards the backoff sleep
RetriesRemain(n) == n < max_retries

Invocation(outcome) ==
    [model |-> model_id,
     kind |-> IF outcome.kind = "success" THEN "success"
              ELSE IF IsInferenceProfileError(outcome.err) THEN "inference_profile"
              ELSE "other",
     after_backoff |-> slept,
     text |-> outcome.text]

\* 66-102: one pass of the while loop
Attempt(outcome) ==
    /\ pc = "eval_call"
    /\ jpc = "loop"
    /\ MayAttempt
    /\ invocations' = Append(invocations, Invocation(outcome))
    /\ slept' = FALSE
    /\ IF outcome.kind = "success"
       THEN /\ result' = outcome.text
            /\ jpc' = "after_loop"
            /\ UNCHANGED <<retries, model_id, invoke_error>>
       ELSE /\ retries' = retries + 1
            /\ UNCHANGED result
            /\ IF IsInferenceProfileError(outcome.err)
               THEN /\ model_id' = FallbackModel
                    /\ jpc' = "loop"
                    /\ UNCHANGED invoke_error
               ELSE IF RetriesRemain(retries + 1)
               THEN /\ jpc' = "backoff"
                    /\ UNCHANGED <<model_id, invoke_error>>
               ELSE /\ jpc' = "raised"
                    /\ invoke_error' = outcome.err
                    /\ UNCHANGED model_id
    /\ UNCHANGED <<pc, store, params, wfvars, io, aggvars, genvars, evalvars>>

\* 99: time.sleep(2)
Backoff ==
    /\ pc = "eval_call"
    /\ jpc = "backoff"
    /\ slept' = TRUE
    /\ jpc' = "loop"
    /\ UNCHANGED <<pc, store, params, wfvars, io, aggvars, genvars, evalvars, retries, model_id, result,
                   invoke_error, invocations>>

\* 66: the while test fails
LoopExit ==
    /\ pc = "eval_call"
    /\ jpc = "loop"
    /\ ~MayAttempt
    /\ jpc' = "after_loop"
    /\ UNCHANGED <<pc, store, params, wfvars, io, aggvars, genvars, evalvars, retries, model_id, result,
                   invoke_error, invocations, slept>>

\* 104-156: the dictionary call_bedrock_model returns
EvaluationResult ==
    IF jpc = "raised" THEN FailedToEvaluate(invoke_error) ELSE ScoreOfResult(result)

\* json_validator.py 69-81: the call returns and its record is appended
CallReturn ==
    /\ pc = "eval_call"
    /\ jpc \in {"after_loop", "raised"}
    /\ results' = Append(results, ResultEntry(data[j], EvaluationResult))
    /\ j' = j + 1
    /\ jpc' = "none"
    /\ pc' = "eval_loop"
    /\ UNCHANGED <<store, params, wfvars, io, aggvars, genvars, data, eval_ok, judged, retries, model_id, result,
                   invoke_error, invocations, slept>>

EndLoop ==
    /\ pc = "eval_loop"
    /\ j > Len(data)
    /\ pc' = "eval_write"
    /\ UNCHANGED <<store, params, wfvars, io, aggvars, genvars, evalvars, callvars>>

\* 84-95
WriteResults ==
    /\ pc = "eval_write"
    /\ \E write_success \in BOOLEAN, put_object \in BOOLEAN :
         /\ write_success => put_object
         /\ eval_ok' = write_success
         /\ s3_output' = IF put_object THEN results ELSE s3_output
         /\ io' = Append(io, StorageCall("write", "output", write_success))
         /\ summary' = IF write_success THEN calculate_summary_statistics(results) ELSE summary
    /\ pc' = "eval_done"
    /\ UNCHANGED <<s3_input, params, wfvars, metrics, genvars, data, j, results, judged, callvars>>

EvalNext ==
    \/ ReadData
    \/ SkipEntry
    \/ TimeoutEntry
    \/ StartCall
    \/ \E outcome \in judge_env : Attempt(outcome)
    \/ Backoff
    \/ LoopExit
    \/ CallReturn
    \/ EndLoop
    \/ WriteResults

\* -------------------------------------------- run_etl_workflow (84-129)
\* --skip: 1 = excel conversion, 2 = generation, 3 = evaluation
Steps == {1, 2, 3}

\* mutant: the exit code ignores the workflow's result
ExitCodeAlwaysZero(success) == 0

\* main, 146: sys.exit(0 if success else 1)
ExitCode(success) == IF success THEN 0 ELSE 1

\* run_etl_workflow returns success and main exits
Exit(success) == pc' = "exited" /\ exit_code' = ExitCode(success)

\* 94-99: convert_excel_to_json catches its own exceptions and returns a boolean
ConversionStep ==
    /\ pc = "wf_convert"
    /\ IF 1 \notin skip_steps
       THEN \E success \in BOOLEAN :
              /\ started' = Append(started, 1)
              /\ reported' = Append(reported, success)
              /\ IF success THEN pc' = "wf_generate" /\ UNCHANGED exit_code ELSE Exit(FALSE)
       ELSE /\ pc' = "wf_generate"
            /\ UNCHANGED <<exit_code, started, reported>>
    /\ UNCHANGED <<skip_steps, store, params, genvars, evalvars, callvars, io, aggvars>>

\* 105-106 and generate_model_responses 32-35
GenerationStep ==
    /\ pc = "wf_generate"
    /\ IF 2 \notin skip_steps
       THEN started' = Append(started, 2) /\ pc' = "gen_read"
       ELSE pc' = "wf_evaluate" /\ UNCHANGED started
    /\ UNCHANGED <<skip_steps, exit_code, reported, store, params, genvars, evalvars, callvars,
                   io, aggvars>>

\* generate_model_responses 36-41 and 107-108
GenerationReturn ==
    /\ pc = "gen_done"
    /\ reported' = Append(reported, gen_ok)
    /\ IF gen_ok THEN pc' = "wf_evaluate" /\ UNCHANGED exit_code ELSE Exit(FALSE)
    /\ UNCHANGED <<skip_steps, started, store, params, genvars, evalvars, callvars, io, aggvars>>

\* 110-111 and evaluate_model_responses 55-63; 115-125 when step 3 is skipped
StartEvaluation ==
    /\ pc = "wf_evaluate"
    /\ IF 3 \notin skip_steps
       THEN started' = Append(started, 3) /\ pc' = "eval_read" /\ UNCHANGED exit_code
       ELSE Exit(TRUE) /\ UNCHANGED started
    /\ UNCHANGED <<skip_steps, reported, store, params, genvars, evalvars, callvars, io, aggvars>>

\* evaluate_model_responses 64-69, 112-113 and 115-125
EvaluationReturn ==
    /\ pc = "eval_done"
    /\ reported' = Append(reported, eval_ok)
    /\ Exit(eval_ok)
    /\ UNCHANGED <<skip_steps, started, store, params, genvars, evalvars, callvars, io, aggvars>>

WorkflowNext ==
    \/ ConversionStep
    \/ GenerationStep
    \/ GenerationReturn
    \/ StartEvaluation
    \/ EvaluationReturn

Next == GenNext \/ WorkflowNext \/ EvalNext

\* nothing has been aggregated yet
NoMetrics == [count |-> -1, metrics |-> EmptyMap, distribution |-> EmptyMap]

NoSummary == [total_entries |-> -1, timeout_entries |-> -1, evaluated_entries |-> -1]

\* the functions of one phase called directly: no workflow around them
WorkflowIdle ==
    /\ skip_steps = {}
    /\ exit_code = -1
    /\ started = <<>>
    /\ reported = <<>>
    /\ io = <<>>
    /\ metrics = NoMetrics
    /\ summary = NoSummary

GenLocalsInit ==
    /\ input_data = <<>>
    /\ i = 0
    /\ futures = <<>>
    /\ queue = <<>>
    /\ collected = {}
    /\ writes = <<>>
    /\ gen_ok = FALSE

EvalLocalsInit ==
    /\ data = <<>>
    /\ j = 0
    /\ results = <<>>
    /\ eval_ok = FALSE
    /\ judged = {}
    /\ jpc = "none"
    /\ retries = 0
    /\ model_id = BEDROCK_DEFAULT_MODEL
    /\ result = <<>>
    /\ invoke_error = <<>>
    /\ invocations = <<>>
    /\ slept = FALSE

GenInit ==
    /\ pc = "gen_read"
    /\ s3_input \in GenInputLists
    /\ s3_output = <<>>
    /\ max_workers \in 0..MaxWorkers
    /\ max_retries = DEFAULT_MAX_RETRIES
    /\ lambda_env = LambdaOutcomes
    /\ judge_env = JudgeOutcomes
    /\ GenLocalsInit
    /\ EvalLocalsInit
    /\ WorkflowIdle

SpecGen == GenInit /\ [][GenNext]_vars

\* the judging phase alone, over any stored artifact (steps 1 and 2 skipped)
EvalInit ==
    /\ pc = "eval_read"
    /\ s3_input \in ArtifactLists
    /\ s3_output = <<>>
    /\ max_workers = MaxWorkers
    /\ max_retries \in 0..MaxRetries
    /\ lambda_env = LambdaOutcomes
    /\ judge_env = JudgeOutcomes
    /\ GenLocalsInit
    /\ EvalLocalsInit
    /\ WorkflowIdle

SpecEval == EvalInit /\ [][EvalNext]_vars

\* one judged entry whose judge response is any text of up to MaxLines lines
ParseInit ==
    /\ pc = "eval_read"
    /\ s3_input = << [hasQuestion |-> TRUE, Question |-> QuestionOf(1), Expected |-> <<"E">>,
                      Generated |-> AnswerDict(<<"Paris">>, <<"Paris">>)] >>
    /\ s3_output = <<>>
    /\ max_workers = MaxWorkers
    /\ max_retries = DEFAULT_MAX_RETRIES
    /\ lambda_env = LeanLambdaOutcomes
    /\ \E n \in 0..MaxLines : \E t \in ParserTexts(n) :
         judge_env = {[kind |-> "success", text |-> t, err |-> <<>>]}
    /\ GenLocalsInit
    /\ EvalLocalsInit
    /\ WorkflowIdle

ParseNext ==
    \/ ReadData
    \/ StartCall
    \/ \E outcome \in judge_env : Attempt(outcome)
    \/ CallReturn
    \/ EndLoop
    \/ WriteResults

SpecParse == ParseInit /\ [][ParseNext]_vars

\* ------------------------------------------------- the aggregator called
\* the evaluation records the aggregator is given: judged, skipped for a
\* timeout, failed, and judged with a justification that quotes the marker
MetricScores ==
    { [accuracy |-> 9, completeness |-> 8, relevance |-> 10, justification |-> <<"close match">>],
      [accuracy |-> 7, completeness |-> 7, relevance |-> 8, justification |-> <<"vague">>],
      [accuracy |-> 11, completeness |-> -3, relevance |-> 10, justification |-> <<>>],
      ZeroScore(FailedResponseJustification),
      ZeroScore(SkippedJustification),
      [accuracy |-> 5, completeness |-> 5, relevance |-> 5,
       justification |-> <<"Skipped due to timeout", SP, "is not an answer">>] }

MetricRecords ==
    { [question |-> <<"Q">>, expected_answer |-> <<"E">>, generated_answer |-> <<"Paris">>,
       text_response_evaluation |-> score] : score \in MetricScores }

RECURSIVE RecordListsOf(_)
RecordListsOf(n) ==
    IF n = 0 THEN {<<>>}
    ELSE {Append(l, r) : l \in RecordListsOf(n - 1), r \in MetricRecords}

RecordLists == UNION {RecordListsOf(n) : n \in 0..MaxRecords}

\* metrics.py 5-90
CalculateMetrics ==
    /\ pc = "metrics_call"
    /\ metrics' = calculate_metrics(results)
    /\ pc' = "summary_call"
    /\ UNCHANGED <<store, params, wfvars, io, summary, genvars, evalvars, callvars>>

\* json_validator.py 101-159
CalculateSummaryStatistics ==
    /\ pc = "summary_call"
    /\ summary' = calculate_summary_statistics(results)
    /\ pc' = "summary_done"
    /\ UNCHANGED <<store, params, wfvars, io, metrics, genvars, evalvars, callvars>>

MetricsNext == CalculateMetrics \/ CalculateSummaryStatistics

\* both aggregators applied to any list of evaluation records
MetricsInit ==
    /\ pc = "metrics_call"
    /\ s3_input = <<>>
    /\ s3_output = <<>>
    /\ max_workers = MaxWorkers
    /\ max_retries = DEFAULT_MAX_RETRIES
    /\ lambda_env = LeanLambdaOutcomes
    /\ judge_env = LeanJudgeOutcomes
    /\ GenLocalsInit
    /\ data = <<>>
    /\ j = 0
    /\ results \in RecordLists
    /\ eval_ok = FALSE
    /\ judged = {}
    /\ jpc = "none"
    /\ retries = 0
    /\ model_id = BEDROCK_DEFAULT_MODEL
    /\ result = <<>>
    /\ invoke_error = <<>>
    /\ invocations = <<>>
    /\ slept = FALSE
    /\ WorkflowIdle

SpecMetrics == MetricsInit /\ [][MetricsNext]_vars

\* the command line tool: conversion, generation, then judging
Init ==
    /\ pc = "wf_convert"
    /\ skip_steps \in SUBSET Steps
    /\ exit_code = -1
    /\ started = <<>>
    /\ reported = <<>>
    /\ io = <<>>
    /\ metrics = NoMetrics
    /\ summary = NoSummary
    /\ s3_input \in InputLists
    /\ s3_output = <<>>
    /\ max_workers \in 1..MaxWorkers
    /\ max_retries = DEFAULT_MAX_RETRIES
    /\ lambda_env = LeanLambdaOutcomes
    /\ judge_env = LeanJudgeOutcomes
    /\ GenLocalsInit
    /\ EvalLocalsInit

Spec == Init /\ [][Next]_vars

\* ================================================================ claims
ScoresOf(record) == record.text_response_evaluation

QuestionsIn(records) == [k \in 1..Len(records) |-> records[k].question]

HasQuestion(entry) == question_of(entry) # <<>>

HasQuestionAndExpected(entry) == ~(question_of(entry) = <<>> \/ expected_answer_of(entry) = <<>>)

QuestionsOfEntries(entries) == [k \in 1..Len(entries) |-> question_of(entries[k])]

EvaluatedSetWritten == pc = "eval_done" /\ eval_ok

\* C1 as stated: when the evaluated set is written, its records are, in input
\* order, exactly the items with a non-empty question, and no item without a
\* question was dispatched to the generation endpoint.
C1_EveryQuestionYieldsRecord ==
    /\ EvaluatedSetWritten => QuestionsIn(s3_output) = QuestionsOfEntries(SelectSeq(data, HasQuestion))
    /\ \A f \in FutureIds : Strip(futures[f].question) # <<>>

\* C1 amended: when the evaluated set is written, its records are, in input
\* order, exactly the items whose question and expected answer are both
\* non-empty; an item with no Question field is never dispatched to the
\* generation endpoint, and a judge call is started only for an item with a
\* non-empty question and expected answer.
C1_EveryCompleteItemYieldsRecord ==
    /\ EvaluatedSetWritten => QuestionsIn(s3_output) = QuestionsOfEntries(SelectSeq(data, HasQuestionAndExpected))
    /\ \A f \in FutureIds : input_data[futures[f].i].hasQuestion
    /\ \A k \in judged : HasQuestionAndExpected(data[k])

\* a written evaluated set with one record, from an input whose first item has
\* a question but no expected answer and whose second item has both
C1_Witness ==
    /\ EvaluatedSetWritten
    /\ Len(data) = 2
    /\ HasQuestion(data[1]) /\ ~HasQuestionAndExpected(data[1])
    /\ HasQuestionAndExpected(data[2])
    /\ Len(s3_output) = 1
    /\ Len(futures) = 2

AnswerAt(f) == input_data[futures[f].i].Generated

\* C2: the generation phase keeps the list's length and items; the answer a
\* call returned is stored in the slot of the question the call was made for,
\* whatever the completion order, and every dispatched slot is written once.
C2_IndexedWriteBack ==
    /\ pc \in {"gen_submit", "gen_sleep", "gen_collect", "gen_write"} =>
          /\ Len(input_data) = Len(s3_input)
          /\ \A k \in 1..Len(input_data) : input_data[k].Question = s3_input[k].Question
    /\ \A f \in FutureIds : futures[f].question = input_data[futures[f].i].Question
    /\ \A f \in collected : ~futures[f].raised =>
          AnswerAt(f) = AnswerDict(futures[f].value[1], futures[f].value[2])
    /\ \A k \in DOMAIN writes : writes[k] <= 1
    /\ pc = "gen_write" =>
          \A k \in DOMAIN writes : writes[k] = (IF input_data[k].hasQuestion THEN 1 ELSE 0)

\* the second submitted call has completed and been stored while the first is
\* still in flight
C2_Witness ==
    /\ pc = "gen_collect"
    /\ Len(futures) = 2
    /\ collected = {2}
    /\ futures[1].state = "running"
    /\ AnswerAt(2).kind = "dict"

\* C3: at most max_workers generation calls are in flight.
C3_BoundedInFlight == Cardinality(Running) <= max_workers

\* the pool is full and a submitted task waits in the queue
C3_Witness == max_workers >= 1 /\ Cardinality(Running) = max_workers /\ queue # <<>>

IsText(x) == DOMAIN x = 1..Len(x) /\ \A k \in 1..Len(x) : x[k] \in STRING

\* the payload whose parse raises inside the try block (TypeError at 63)
JsonStringPayload == <<"\"", "errorType", "errorMessage", "\"">>

\* C8: for every outcome of the external call the invoker returns a pair of
\* two strings and does not raise; when the call, the decoding or the parsing
\* raised, both strings are the same "Error invoking Lambda: ..." message.
C8_InvokerNeverRaises ==
    \A f \in FutureIds :
        (futures[f].state = "finished" /\ futures[f].outcome.kind # "handler_raised") =>
            /\ ~futures[f].raised
            /\ Len(futures[f].value) = 2
            /\ IsText(futures[f].value[1])
            /\ IsText(futures[f].value[2])
            /\ futures[f].outcome.kind \in {"invoke_raised", "decode_raised"} =>
                  /\ futures[f].value[1] = <<"Error invoking Lambda: ", futures[f].outcome.err>>
                  /\ futures[f].value[2] = futures[f].value[1]
            /\ futures[f].outcome.raw = JsonStringPayload =>
                  /\ futures[f].value[1][1] = "Error invoking Lambda: "
                  /\ futures[f].value[2] = futures[f].value[1]

\* one call's payload parse raised and another call's transport raised
C8_Witness ==
    /\ \E f \in FutureIds :
          futures[f].state = "finished" /\ futures[f].outcome.raw = JsonStringPayload
    /\ \E f \in FutureIds :
          futures[f].state = "finished" /\ futures[f].outcome.kind = "invoke_raised"

EndedInError(fut) == fut.raised \/ fut.outcome.kind \in {"invoke_raised", "decode_raised"}

\* C9 as stated: every collected item has both fields, an item whose call
\* ended in an error (also one caught while collecting the result) has the
\* error text in both fields, and the other items hold what their calls returned.
C9_ErrorTextInBothFields ==
    \A f \in collected :
        /\ AnswerAt(f).kind = "dict"
        /\ EndedInError(futures[f]) =>
              /\ AnswerAt(f).text_response # <<>>
              /\ AnswerAt(f).text_response = AnswerAt(f).raw_response
        /\ ~futures[f].raised =>
              AnswerAt(f) = AnswerDict(futures[f].value[1], futures[f].value[2])

ClientError == <<"NoRegionError">>

\* the current judge call has left its retry loop (the client was built)
LoopLeft == jpc \in {"after_loop", "raised"} /\ invoke_error # ClientError

Kinds == [k \in 1..Len(invocations) |-> invocations[k].kind]

AllFailed == \A k \in 1..Len(invocations) : invocations[k].kind # "success"

\* C4: a judge call invokes the model at most max_retries times, never again
\* after a successful invocation, and at least once when max_retries >= 1.
C4_BoundedAttempts ==
    /\ Len(invocations) <= max_retries
    /\ \A k \in 1..Len(invocations) : invocations[k].kind = "success" => k = Len(invocations)
    /\ (LoopLeft /\ max_retries >= 1) => Len(invocations) >= 1
    /\ (jpc = "after_loop" /\ AllFailed) => Len(invocations) = max_retries

\* the last permitted attempt of a call with the default bound succeeded
C4_Witness ==
    /\ jpc = "after_loop"
    /\ max_retries = DEFAULT_MAX_RETRIES
    /\ Len(invocations) = max_retries
    /\ invocations[Len(invocations)].kind = "success"

\* C5: after an inference-profile error model_id is the fallback model, the
\* next attempt (if one is left) uses it and follows without a backoff sleep,
\* and the failed attempt is counted in retries; an inference-profile error
\* followed by a success is two attempts, the second with the fallback
\* model, and the record returned is the parse of the second response.
C5_FallbackWithoutBackoff ==
    /\ \A k \in 1..Len(invocations) :
          (invocations[k].kind = "inference_profile" /\ k < Len(invocations)) =>
              /\ invocations[k + 1].model = BEDROCK_FALLBACK_MODEL
              /\ ~invocations[k + 1].after_backoff
    /\ (invocations # <<>> /\ invocations[Len(invocations)].kind = "inference_profile") =>
          /\ model_id = BEDROCK_FALLBACK_MODEL
          /\ ~slept
          /\ jpc # "backoff"
    /\ jpc \in {"loop", "backoff", "after_loop", "raised"} =>
          retries = Cardinality({k \in 1..Len(invocations) : invocations[k].kind # "success"})
    /\ retries <= max_retries
    /\ (jpc = "after_loop" /\ Kinds = <<"inference_profile", "success">>) =>
          /\ invocations[2].model = BEDROCK_FALLBACK_MODEL
          /\ invocations[1].model = BEDROCK_DEFAULT_MODEL
          /\ invocations[2].text # <<>> => EvaluationResult = ParseResult(invocations[2].text)

\* the scenario: inference-profile error, then the scenario response
C5_Witness ==
    /\ jpc = "after_loop"
    /\ Kinds = <<"inference_profile", "success">>
    /\ EvaluationResult = [accuracy |-> 9, completeness |-> 8, relevance |-> 10,
                           justification |-> <<"close match">>]

IsZero(score) == score.accuracy = 0 /\ score.completeness = 0 /\ score.relevance = 0

\* the records of the entries before position n that are not skipped
RecordedBefore(n) == Len(SelectSeq(SubSeq(data, 1, n - 1), HasQuestionAndExpected))

\* the record the judging phase appended for the entry at position k < j
RecordOf(k) == results[RecordedBefore(k + 1)]

C7_ExhaustedRetriesDegrade ==
    /\ (LoopLeft /\ max_retries >= 1 /\ AllFailed /\ Len(invocations) = max_retries) =>
          /\ IsZero(EvaluationResult)
          /\ EvaluationResult.justification # <<>>
    /\ (pc = "eval_loop" /\ j > 1 /\ (j - 1) \in judged /\ invoke_error # ClientError
            /\ max_retries >= 1 /\ AllFailed /\ Len(invocations) = max_retries) =>
          /\ RecordOf(j - 1) = results[Len(results)]
          /\ results[Len(results)].question = question_of(data[j - 1])
          /\ IsZero(ScoresOf(results[Len(results)]))
          /\ ScoresOf(results[Len(results)]).justification # <<>>
    /\ pc \in {"eval_loop", "eval_call"} => Len(results) = RecordedBefore(j)
    /\ pc \in {"eval_write", "eval_done"} => Len(results) = RecordedBefore(Len(data) + 1)

\* the first entry's call failed max_retries times, its zero record was
\* appended, and the second entry was judged after it
C7_Witness ==
    /\ pc = "eval_write"
    /\ max_retries = DEFAULT_MAX_RETRIES
    /\ Len(results) = 2
    /\ ScoresOf(results[1]).justification = <<"Failed to evaluate: ", "ThrottlingException">>
    /\ ScoresOf(results[2]).accuracy = 9
    /\ judged = {1, 2}

ScoreValues(score) == {score.accuracy, score.completeness, score.relevance}

\* C10 as stated: every record's three scores are integers in 0..10.
C10_ScoresWithinBounds ==
    \A k \in 1..Len(results) : ScoreValues(ScoresOf(results[k])) \subseteq 0..10

\* the integers written in a response
RECURSIVE TokensOf(_)
TokensOf(lines) ==
    IF lines = <<>> THEN {}
    ELSE {Head(lines)[n] : n \in 1..Len(Head(lines))} \cup TokensOf(Tail(lines))

WrittenIntegers(lines) == {IntLiteral[t] : t \in TokensOf(lines) \cap DOMAIN IntLiteral}

\* C10 amended: every record's three scores are integers, each 0 or an
\* integer written in the judge's response; they are within 0..10 when the
\* integers of the response are, and no bound is applied otherwise.
C10_ScoresAreParsedIntegers ==
    /\ \A k \in 1..Len(results) : ScoreValues(ScoresOf(results[k])) \subseteq Int
    /\ jpc \in {"after_loop", "raised"} =>
          /\ ScoreValues(EvaluationResult) \subseteq {0} \cup WrittenIntegers(result)
          /\ WrittenIntegers(result) \subseteq 0..10 => ScoreValues(EvaluationResult) \subseteq 0..10
    /\ (pc = "eval_loop" /\ j > 1 /\ (j - 1) \in judged) =>
          ScoreValues(ScoresOf(results[Len(results)])) \subseteq {0} \cup WrittenIntegers(result)

\* a record holds the 11 and the -3 the judge wrote
C10_Witness ==
    /\ results # <<>>
    /\ ScoresOf(results[1]).accuracy = 11
    /\ ScoresOf(results[1]).completeness = -3

\* an entry the judging phase calls the judge for
NeedsJudge(entry) == ~MissingField(entry) /\ ~IsTimeout(text_response_of(entry))

\* the current entry's judge call has failed at least once and has not ended
Retrying ==
    /\ pc = "eval_call"
    /\ retries >= 1
    /\ jpc = "backoff" \/ (jpc = "loop" /\ MayAttempt)

\* C11: while one entry's judge call is retrying or waiting in its backoff,
\* the judge calls of the other entries are not blocked: a judge call for an
\* entry that still waits for its judgement can start.
C11_RetryDoesNotBlockOthers ==
    (Retrying /\ \E k \in (j + 1)..Len(data) : NeedsJudge(data[k])) => ENABLED StartCall

\* C12: exactly one pacing delay elapses between two successive submissions,
\* whatever max_workers is and whatever the state of the earlier tasks; the
\* submissions are made in input order, and the coordinator's next submission
\* or sleep never waits for a task.
C12_PacedSubmissions ==
    /\ \A f \in FutureIds :
         /\ f < Len(futures) => futures[f].sleeps = 1
         /\ f = Len(futures) => futures[f].sleeps = IF pc = "gen_sleep" THEN 0 ELSE 1
         /\ \A g \in FutureIds : f < g => futures[f].i < futures[g].i
    /\ (pc = "gen_submit" /\ i <= Len(input_data) /\ input_data[i].hasQuestion) => ENABLED Submit
    /\ pc = "gen_sleep" => ENABLED PacingSleep

\* the second task was submitted, one delay after the first, while the first
\* was still running on the only worker
C12_Witness ==
    /\ max_workers = 1
    /\ Len(futures) = 2
    /\ futures[1].state = "running"
    /\ futures[1].sleeps = 1
    /\ futures[2].state = "pending"
    /\ pc = "gen_sleep"

\* the input object was read without error
InputWasRead == io # <<>> /\ io[1] = StorageCall("read", "input", TRUE)

\* C13: when the input record set is empty, the generation stage makes no
\* external generation call and completes reporting success.
C13_EmptyInputIsSuccess ==
    (pc = "gen_done" /\ InputWasRead /\ s3_input = <<>>) => (futures = <<>> /\ gen_ok)

\* the steps the workflow was asked to run, in the order 1, 2, 3
NonSkipped == SelectSeq(<<1, 2, 3>>, LAMBDA step : step \notin skip_steps)

IsPrefix(a, b) == Len(a) <= Len(b) /\ a = SubSeq(b, 1, Len(a))

AllReportedSuccess ==
    Len(reported) = Len(started) /\ \A k \in 1..Len(reported) : reported[k]

\* C14: the non-skipped steps are started in the order conversion,
\* generation, evaluation, each after the one before it has reported; once a
\* step reports failure no later step is started and the exit code is 1; the
\* exit code is 0 exactly when every non-skipped step ran and reported success.
C14_StagesInOrderAndExitCode ==
    /\ IsPrefix(started, NonSkipped)
    /\ Len(reported) <= Len(started)
    /\ Len(started) <= Len(reported) + 1
    /\ \A k \in 1..Len(reported) :
         ~reported[k] => (Len(started) = k /\ pc = "exited" /\ exit_code = 1)
    /\ pc \in {"eval_read", "eval_loop", "eval_call", "eval_write", "eval_done"} =>
         (2 \in skip_steps \/ gen_ok)
    /\ pc = "exited" =>
         /\ exit_code \in {0, 1}
         /\ exit_code = 0 <=> (started = NonSkipped /\ AllReportedSuccess)
    /\ pc # "exited" => exit_code = -1

\* conversion succeeded, generation reported failure, evaluation was never
\* started and the process exited with code 1
C14_Witness ==
    /\ skip_steps = {}
    /\ pc = "exited"
    /\ started = <<1, 2>>
    /\ reported = <<TRUE, FALSE>>
    /\ exit_code = 1
    /\ io # <<>>
    /\ data = <<>>

Axes == {"accuracy", "completeness", "relevance"}

LabelOf(axis) ==
    CASE axis = "accuracy" -> "Accuracy score"
      [] axis = "completeness" -> "Completeness score"
      [] axis = "relevance" -> "Relevance score"

\* the positions of the lines that begin with the label
LinesWith(lines, label) == {k \in 1..Len(lines) : lines[k] # <<>> /\ lines[k][1] = label}

Lowest(S) == CHOOSE k \in S : \A m \in S : k <= m

\* "label: N": the label, a colon, then one numeral with blanks around it
ValidScoreLine(l, label) ==
    /\ Len(l) >= 3
    /\ l[1] = label
    /\ l[2] = ":"
    /\ \E at \in 3..Len(l) :
         /\ l[at] \in DOMAIN IntLiteral
         /\ \A q \in 3..Len(l) : q # at => l[q] = SP

NumberOn(l) == IntLiteral[l[CHOOSE at \in 3..Len(l) : l[at] \in DOMAIN IntLiteral]]

\* the axis has lines and the first of them is valid
FirstIsValid(lines, axis) ==
    /\ LinesWith(lines, LabelOf(axis)) # {}
    /\ ValidScoreLine(lines[Lowest(LinesWith(lines, LabelOf(axis)))], LabelOf(axis))

NumberOfFirst(lines, axis) == NumberOn(lines[Lowest(LinesWith(lines, LabelOf(axis)))])

\* "Justification: ...": the words after the label of every such line, in order
RECURSIVE JustificationWords(_)
JustificationWords(lines) ==
    IF lines = <<>> THEN <<>>
    ELSE (IF Len(Head(lines)) >= 2 /\ Head(lines)[1] = "Justification" /\ Head(lines)[2] = ":"
          THEN SelectSeq(SubSeq(Head(lines), 3, Len(Head(lines))), LAMBDA t : t # SP)
          ELSE <<>>) \o JustificationWords(Tail(lines))

Words(text) == SelectSeq(text, LAMBDA t : t # SP)

\* the call has a response text and is about to parse it
ParsedCall == pc = "eval_call" /\ jpc = "after_loop" /\ result # <<>>

ValueWords(l) ==
    LET colons == {k \in 1..Len(l) : l[k] = ":"}
        from == Lowest(colons)
        to == Lowest({k \in colons : k > from} \cup {Len(l) + 1})
    IN  IF colons = {} THEN <<>> ELSE Words(SubSeq(l, from + 1, to - 1))

\* the axis has a score line and the value of its first one is an integer
HasIntegerValue(lines, axis) ==
    /\ LinesWith(lines, LabelOf(axis)) # {}
    /\ LET v == ValueWords(lines[Lowest(LinesWith(lines, LabelOf(axis)))])
       IN  Len(v) = 1 /\ v[1] \in DOMAIN IntLiteral

IntegerValue(lines, axis) ==
    IntLiteral[ValueWords(lines[Lowest(LinesWith(lines, LabelOf(axis)))])[1]]

\* C16: parsing a response text never raises (no exception leaves the score
\* extraction and no "Parsing error" record is returned); an axis whose score
\* line is missing or whose value is not an integer gets 0, and every other
\* axis has the integer of its own first line, whatever the other lines are.
C16_MalformedAxisIsZero ==
    ParsedCall =>
        /\ ParsingError(result) = ""
        /\ DOMAIN EvaluationResult = {"accuracy", "completeness", "relevance", "justification"}
        /\ \A axis \in Axes :
             EvaluationResult[axis] =
                 IF HasIntegerValue(result, axis) THEN IntegerValue(result, axis) ELSE 0

\* accuracy 9 was kept while the completeness line had no colon and the
\* relevance value was "10/10"
C16_Witness ==
    /\ pc = "eval_loop"
    /\ result = << <<"Accuracy score", ":", SP, "9">>,
                   <<"Completeness score", SP, "8">>,
                   <<"Relevance score", ":", SP, "10/10">> >>
    /\ Len(results) = 1
    /\ ScoresOf(results[1]) = [accuracy |-> 9, completeness |-> 0, relevance |-> 0,
                               justification |-> <<>>]

\* the records whose justification does not hold the timeout-skip marker
Unskipped(records) ==
    SelectSeq(records, LAMBDA r : ~HasSkipMarker(ScoresOf(r).justification))

SameMetrics(a, b) ==
    /\ a.count = b.count
    /\ DOMAIN a.metrics = DOMAIN b.metrics
    /\ DOMAIN a.distribution = DOMAIN b.distribution
    /\ \A name \in DOMAIN a.metrics : a.metrics[name] = b.metrics[name]
    /\ \A name \in DOMAIN a.distribution : a.distribution[name] = b.distribution[name]

\* C17: the aggregator's result is the result for the records that are not
\* skipped (so adding or removing skipped records changes nothing); its count
\* is the number of those records; with no such record the count is 0 and the
\* metrics and distribution maps are empty; otherwise every mean times the
\* count is the sum of the axis. The summary statistics count and average the
\* same records.
C17_OnlyUnskippedRecordsCount ==
    /\ pc \in {"summary_call", "summary_done"} =>
         /\ metrics.count = Len(Unskipped(results))
         /\ SameMetrics(metrics, calculate_metrics(Unskipped(results)))
         /\ Unskipped(results) = <<>> =>
              /\ metrics.count = 0
              /\ DOMAIN metrics.metrics = {}
              /\ DOMAIN metrics.distribution = {}
         /\ Unskipped(results) # <<>> =>
              /\ DOMAIN metrics.metrics = {"accuracy", "completeness", "relevance", "combined"}
              /\ DOMAIN metrics.distribution = {"accuracy", "completeness", "relevance", "combined"}
              /\ \A axis \in Axes :
                   /\ metrics.metrics[axis].mean[1] * metrics.count =
                        metrics.metrics[axis].mean[2] *
                            Sum([k \in 1..metrics.count |-> ScoresOf(Unskipped(results)[k])[axis]])
                   /\ metrics.metrics[axis].mean[2] > 0
    /\ pc = "summary_done" =>
         /\ summary.evaluated_entries = Len(Unskipped(results))
         /\ summary.avg_accuracy = calculate_summary_statistics(Unskipped(results)).avg_accuracy
         /\ summary.avg_completeness = calculate_summary_statistics(Unskipped(results)).avg_completeness
         /\ summary.avg_relevance = calculate_summary_statistics(Unskipped(results)).avg_relevance
         /\ summary.avg_overall = calculate_summary_statistics(Unskipped(results)).avg_overall

\* two judged records around a skipped one: count 2, mean accuracy 8, the
\* combined scores 9 and 22/3 in the bins 9 and 7
C17_Witness ==
    /\ pc = "summary_done"
    /\ Len(results) = 3
    /\ ScoresOf(results[1]).accuracy = 9
    /\ ScoresOf(results[2]) = ZeroScore(SkippedJustification)
    /\ ScoresOf(results[3]).accuracy = 7
    /\ metrics.count = 2
    /\ metrics.metrics.accuracy.mean = <<8, 1>>
    /\ metrics.distribution.combined[9] = 1
    /\ metrics.distribution.combined[7] = 1
    /\ summary.total_entries = 3
    /\ summary.evaluated_entries = 2

HasTimeoutMarker(raw) == Contains(raw, "errorType") /\ Contains(raw, "Sandbox.Timedout")

\* the raw response has both markers and parses as an object with an errorMessage
IsStructuredError(raw) ==
    /\ Contains(raw, "errorType")
    /\ Contains(raw, "errorMessage")
    /\ JsonLoads(raw).kind = "dict"
    /\ DictHasKey(JsonLoads(raw).body, "errorMessage")

TrimmedAnswer(raw) ==
    IF Contains(raw, "<sessionId>") THEN Strip(SubSeq(raw, 1, FirstIndex(raw, "<sessionId>") - 1))
    ELSE Strip(raw)

\* the pair the stated priority gives for a raw response
ClassifiedAs(raw) ==
    IF HasTimeoutMarker(raw) THEN <<TimeoutMessage, TimeoutMessage>>
    ELSE IF IsStructuredError(raw)
    THEN << <<"Error: ", DictGet(JsonLoads(raw).body, "errorMessage")>>,
            <<"Error: ", DictGet(JsonLoads(raw).body, "errorMessage")>> >>
    ELSE <<raw, TrimmedAnswer(raw)>>

\* C18: a raw response is classified in this priority: timeout marker, then
\* structured error object, then the raw text with the trimmed text before
\* the session delimiter (or the whole trimmed text) as the extracted answer.
C18_ClassificationPriority ==
    \A f \in FutureIds :
        (futures[f].state = "finished" /\ futures[f].outcome.kind = "payload") =>
            /\ ~futures[f].raised
            /\ futures[f].value = ClassifiedAs(futures[f].outcome.raw)

LastInvocation == invocations[Len(invocations)]

\* the model the k-th attempt must use: the fallback once an inference-profile
\* error has occurred, the primary before
ModelDue(k) ==
    IF \E m \in 1..(k - 1) : invocations[m].kind = "inference_profile"
    THEN BEDROCK_FALLBACK_MODEL
    ELSE BEDROCK_DEFAULT_MODEL

\* C19: after an invocation failed with an error that is not an
\* inference-profile error and retries remain, one backoff wait precedes the
\* next attempt, which uses the same model_id (the primary before any
\* inference-profile error, the fallback after one, never the primary again);
\* no backoff wait follows the last permitted attempt.
C19_BackoffKeepsModel ==
    /\ \A k \in 1..Len(invocations) :
         /\ invocations[k].model = ModelDue(k)
         /\ invocations[k].after_backoff <=> (k > 1 /\ invocations[k - 1].kind = "other")
         /\ (k > 1 /\ invocations[k - 1].kind = "other") =>
              invocations[k].model = invocations[k - 1].model
    /\ jpc = "backoff" =>
         /\ LastInvocation.kind = "other"
         /\ Len(invocations) < max_retries
         /\ ~slept
    /\ (pc = "eval_call" /\ jpc = "loop" /\ invocations # <<>>) =>
         /\ slept <=> LastInvocation.kind = "other"
         /\ model_id = ModelDue(Len(invocations) + 1)
    /\ (invocations # <<>> /\ Len(invocations) >= max_retries) => (jpc # "backoff" /\ ~slept)

\* an inference-profile error, then a throttling error on the fallback, one
\* backoff wait, and a third attempt on the fallback that succeeded
C19_Witness ==
    /\ Len(invocations) = 3
    /\ invocations[1].kind = "inference_profile"
    /\ invocations[2].kind = "other"
    /\ invocations[2].model = BEDROCK_FALLBACK_MODEL
    /\ ~invocations[2].after_backoff
    /\ invocations[3].after_backoff
    /\ invocations[3].model = BEDROCK_FALLBACK_MODEL
    /\ invocations[3].kind = "success"

\* the text without the blanks at its two ends
Trimmed(text) ==
    LET at == {k \in 1..Len(text) : text[k] # SP}
    IN  IF at = {} THEN <<>>
        ELSE SubSeq(text, Lowest(at), CHOOSE k \in at : \A m \in at : m <= k)

BothFields(entry) == Trimmed(entry.Question) # <<>> /\ Trimmed(entry.Expected) # <<>>

\* the judge is due for the entry
JudgeDue(entry) ==
    /\ BothFields(entry)
    /\ \A k \in 1..Len(entry.Generated.text_response) :
         entry.Generated.text_response[k] # TooLongPhrase

\* C20: the judge is invoked for an entry exactly when its question and its
\* expected answer are both non-empty after trimming and its generated text
\* does not hold "The model took too long to respond"; an entry with an empty
\* question or expected answer gets no judge call and no output record.
C20_JudgeCalledIffDue ==
    /\ \A k \in 1..Len(data) : k < j => (k \in judged <=> JudgeDue(data[k]))
    /\ \A k \in judged : JudgeDue(data[k])
    /\ pc = "eval_call" => j \in judged
    /\ Len(results) <= Len(SelectSeq(data, BothFields))
    /\ pc \in {"eval_write", "eval_done"} => Len(results) = Len(SelectSeq(data, BothFields))
    /\ \A k \in 1..Len(results) : results[k].question # <<>> /\ results[k].expected_answer # <<>>

\* the first entry has a blank expected answer and got neither a call nor a
\* record; the second was judged; the loop is over
C20_Witness ==
    /\ pc = "eval_write"
    /\ Len(data) = 2
    /\ data[1].Question = QuestionOf(1)
    /\ data[1].Expected = <<SP>>
    /\ judged = {2}
    /\ Len(results) = 1
    /\ results[1].question = QuestionOf(2)

\* ---------------------------------------------------------------- C21
\* the artifact's write has been issued (whatever it reported)
ArtifactWrites == {k \in 1..Len(io) : io[k].op = "write" /\ io[k].key = "input"}

\* the call of future f has returned and its result is in its item's slot
ReturnedAndStored(f) ==
    /\ futures[f].state = "finished"
    /\ f \in collected
    /\ writes[SlotOf(f)] = 1
    /\ input_data[SlotOf(f)].Generated = GeneratedAnswerOf(futures[f])

\* C21: in the generation phase the artifact is written only after every
\* submitted call has returned and its result is stored in its item's slot:
\* from the moment the write is issued no call is queued or in flight, what
\* was put in storage holds every result, and the artifact is written at
\* most once per run.
C21_WriteAfterAllStored ==
    /\ (pc = "gen_write" \/ ArtifactWrites # {}) =>
          /\ queue = <<>>
          /\ Running = {}
          /\ \A f \in FutureIds : ReturnedAndStored(f)
    /\ Cardinality(ArtifactWrites) <= 1
    /\ (ArtifactWrites # {} /\ gen_ok) =>
          \A f \in FutureIds : s3_input[SlotOf(f)].Generated = GeneratedAnswerOf(futures[f])

\* the artifact was written after two calls, submitted to a single worker,
\* had both returned
C21_Witness ==
    /\ ArtifactWrites # {}
    /\ gen_ok
    /\ max_workers = 1
    /\ Len(futures) >= 2
    /\ \A f \in FutureIds : ReturnedAndStored(f)

====
